---------------------------- MODULE Spec2Model ----------------------------
(***************************************************************************)
(* ipcbuf (src/ipcbuf.c): measures the kernel buffer of an IPC channel     *)
(* (pipe, fifo, socketpair, socket) by nonblocking writes, then drains it. *)
(*                                                                         *)
(* The model follows the control flow of main(): parseArgs, atexit, one of *)
(* doPipe / doFifo / doSocketpair / doSocket, writeData (writeLoop or the  *)
(* chunk burst, both through writeChunk), readData, exit with the cleanup  *)
(* hook.  Each action is one system call together with the local           *)
(* computation that follows it up to the next system call.  The kernel is  *)
(* the environment: a bounded byte queue per channel, a two-name           *)
(* filesystem, and a listening/connection state for stream sockets.        *)
(* Allocation (malloc) is assumed to succeed.                              *)
(***************************************************************************)
EXTENDS Integers, Sequences, FiniteSets, TLC

(***************************************************************************)
(* Bounds of the model (scaled-down kernel parameters and input ranges).   *)
(***************************************************************************)
Cap      == 7   \* bytes a channel buffers (pipe size, socket buffer)
MaxQLen  == 3   \* datagrams a datagram socket queues (max_dgram_qlen)
MaxMsg   == 3   \* largest datagram accepted in one call (EMSGSIZE above)
PipeBuf  == 2   \* PIPE_BUF: pipe/fifo writes up to this size are atomic
BufSiz   == 2   \* BUFSIZ of <stdio.h>
PageSize == 4   \* granularity F_SETPIPE_SZ rounds a pipe size up to
MaxLog   == 12  \* write(2) calls recorded in wlog
IterMod  == 16  \* the int iteration counter i is kept modulo IterMod

Procs == {"main", "child"}

(***************************************************************************)
(* C strings are sequences of one-character strings.                       *)
(***************************************************************************)
NoArg        == <<>>          \* option or operand not given (NULL)
s_fifo       == <<"f","i","f","o">>
s_pipe       == <<"p","i","p","e">>
s_socket     == <<"s","o","c","k","e","t">>
s_socketpair == <<"s","o","c","k","e","t","p","a","i","r">>
s_dgram      == <<"d","g","r","a","m">>
s_stream     == <<"s","t","r","e","a","m">>
s_inet       == <<"i","n","e","t">>
s_inet_      == <<"i","n","e","t","-">>
s_inet6_     == <<"i","n","e","t","6","-">>
s_DGRAM      == <<"D","G","R","A","M">>

Min(a, b) == IF a < b THEN a ELSE b
Max(a, b) == IF a > b THEN a ELSE b

RECURSIVE Sum(_)
Sum(s) == IF s = <<>> THEN 0 ELSE s[1] + Sum(Tail(s))

\* tolower(3) on the letters the inputs use
ToLower(c) ==
  CASE c = "D" -> "d" [] c = "G" -> "g" [] c = "R" -> "r" [] c = "A" -> "a"
    [] c = "M" -> "m" [] c = "F" -> "f" [] c = "I" -> "i" [] c = "O" -> "o"
    [] OTHER -> c

\* strcasecmp(a, b) == 0
StrCaseEq(a, b) ==
  /\ Len(a) = Len(b)
  /\ \A k \in 1..Len(a) : ToLower(a[k]) = ToLower(b[k])

\* strncmp(s, prefix, strlen(prefix)) == 0
HasPrefix(s, prefix) ==
  /\ Len(s) >= Len(prefix)
  /\ SubSeq(s, 1, Len(prefix)) = prefix

\* s += strlen(prefix)
DropPrefix(s, prefix) == SubSeq(s, Len(prefix) + 1, Len(s))

IsDigit(c) == c \in {"0","1","2","3","4","5","6","7","8","9"}
DigitVal(c) ==
  CASE c = "0" -> 0 [] c = "1" -> 1 [] c = "2" -> 2 [] c = "3" -> 3
    [] c = "4" -> 4 [] c = "5" -> 5 [] c = "6" -> 6 [] c = "7" -> 7
    [] c = "8" -> 8 [] c = "9" -> 9

RECURSIVE ParseDigits(_, _, _)
ParseDigits(s, k, acc) ==
  IF k > Len(s) \/ ~IsDigit(s[k]) THEN acc
  ELSE ParseDigits(s, k + 1, acc * 10 + DigitVal(s[k]))

\* (int)strtol(in, NULL, 10): optional sign, leading digits, 0 if there are none
Strtol(s) ==
  IF s # <<>> /\ s[1] = "-" THEN 0 - ParseDigits(s, 2, 0)
  ELSE IF s # <<>> /\ s[1] = "+" THEN ParseDigits(s, 2, 0)
  ELSE ParseDigits(s, 1, 0)

\* inputNumber: the number, or "exit" when it is below the threshold
InputNumberOk(in, threshold) == Strtol(in) >= threshold

VARIABLES
  argv,           \* the command line: options and operands
  platform,       \* the build: "linux", "freebsd" or "netbsd"
  IPC_TYPE, MODE, CHUNK1, CHUNK2, NUM_CHUNKS, QUIET,
  SET_RCVBUF, SET_SNDBUF, SET_PIPEBUF,
  SET_SOCKTYPE, SOCK_TYPE, SOCK_DOMAIN,
  TOTAL,          \* per process (fork copies the globals)
  LARGEST_CHUNK,  \* per process
  pc,             \* per process: the next system call
  status,         \* per process: "running", "EXIT_SUCCESS", "EXIT_FAILURE", "SIGPIPE"
  atexitHook,     \* cleanup registered with atexit (inherited over fork)
  site,           \* call site of the running writeChunk: "loop", "first", "more"
  count, i, n,    \* writeLoop's count, i and n; writeData's i in chunk mode
  wcount, wanted, failed,   \* writeChunk's count, wanted and failed
  rtotal, bufsiz, \* readData's total and bufsiz
  queue,          \* kernel: the chunks buffered in the channel, oldest first
  cap,            \* kernel: capacity of the channel in bytes
  nonblock,       \* kernel: endpoints ("r", "w") with O_NONBLOCK set
  wclosed,        \* kernel: the write endpoint has been closed
  listening,      \* kernel: listen(2) was called on the bound socket
  conn,           \* kernel: "none", "pending" (connected, not accepted), "accepted"
  fs,             \* filesystem: which of "fifo" and "socket" exist
  created,        \* the paths this run created
  stdout,         \* the report lines printed, in order
  wlog,           \* the first MaxLog write(2) calls: [wanted, count, n, errno]
  rlog            \* the first MaxLog read(2) calls of readData: [size, n, errno]

cfgVars  == <<IPC_TYPE, MODE, CHUNK1, CHUNK2, NUM_CHUNKS, QUIET, SET_RCVBUF,
              SET_SNDBUF, SET_PIPEBUF, SET_SOCKTYPE, SOCK_TYPE, SOCK_DOMAIN>>
envVars  == <<argv, platform>>
accVars  == <<TOTAL, LARGEST_CHUNK>>
wrVars   == <<site, count, i, n, wcount, wanted, failed>>
rdVars   == <<rtotal, bufsiz>>
chanVars == <<queue, cap, nonblock, wclosed, wlog, rlog>>
sockVars == <<listening, conn>>
vars == <<envVars, cfgVars, accVars, pc, status, atexitHook, wrVars, rdVars,
          chanVars, sockVars, fs, created, stdout>>

(***************************************************************************)
(* Inputs.                                                                 *)
(***************************************************************************)
NumStrings  == {<<"0">>, <<"1">>, <<"2">>, <<"5">>}
TypeStrings == {NoArg, s_fifo, s_pipe, s_socket, s_socketpair}
SockStrings == {NoArg, s_dgram, s_stream, s_inet_ \o s_dgram, s_inet_ \o s_stream,
                s_inet6_ \o s_stream}

MkArgv(P, R, S, m, num, q, s, t, ops) ==
  [P |-> P, R |-> R, S |-> S, mode |-> m, n |-> num, q |-> q, s |-> s, t |-> t,
   operands |-> ops]

Operands == {<<>>} \cup {<<a>> : a \in NumStrings}
              \cup {<<a, b>> : a \in NumStrings, b \in NumStrings}

SockOperands == {<<>>, <<<<"0">>>>, <<<<"0">>, <<"2">>>>, <<<<"2">>, <<"0">>>>,
                 <<<<"2">>, <<"1">>>>}

\* command lines that pass parseArgs
ValidArgv ==
  {MkArgv(NoArg, NoArg, NoArg, m, num, FALSE, s, t, ops) :
     m \in {"l", "c"}, num \in {NoArg, <<"0">>, <<"3">>},
     s \in {NoArg}, t \in {NoArg, s_fifo}, ops \in Operands}
  \cup
  {MkArgv(NoArg, R, NoArg, m, NoArg, FALSE, s, t, ops) :
     R \in {NoArg, <<"1">>}, m \in {"l", "c"}, s \in SockStrings \ {NoArg},
     t \in {s_socket}, ops \in SockOperands}
  \cup
  {MkArgv(NoArg, NoArg, S, m, NoArg, q, s, s_socketpair, ops) :
     S \in {NoArg, <<"1">>}, m \in {"l", "c"}, q \in BOOLEAN,
     s \in {NoArg, s_stream}, ops \in SockOperands}
  \cup
  {MkArgv(<<"5">>, NoArg, NoArg, "l", NoArg, FALSE, NoArg, t, <<>>) :
     t \in {NoArg, s_pipe}}

\* command lines parseArgs may reject
OddArgv ==
  {MkArgv(P, NoArg, NoArg, "l", num, FALSE, s, t, ops) :
     P \in {NoArg, <<"0">>}, num \in {NoArg, <<"-","1">>, <<"x">>},
     s \in {NoArg, <<"r","a","w">>, s_inet, s_inet_ \o s_dgram},
     t \in {NoArg, <<"F","I","F","O">>, <<"t","c","p">>, s_socketpair},
     ops \in {<<>>, <<<<"x">>>>, <<<<"1">>, <<"-","1">>>>,
              <<<<"1">>, <<"1">>, <<"1">>>>}}

ArgvSet   == ValidArgv \cup OddArgv
Platforms == {"linux", "freebsd", "netbsd"}
InitialFs == {{}, {"fifo", "socket"}}

Init ==
  /\ argv \in ArgvSet
  /\ platform \in Platforms
  /\ IPC_TYPE = "IPC_PIPE"
  /\ MODE = "LOOP"
  /\ CHUNK1 = 1
  /\ CHUNK2 = -1
  /\ TOTAL = [p \in Procs |-> 0]
  /\ NUM_CHUNKS = 1
  /\ LARGEST_CHUNK = [p \in Procs |-> 0]
  /\ QUIET = FALSE
  /\ SET_RCVBUF = -1
  /\ SET_SNDBUF = -1
  /\ SET_PIPEBUF = -1
  /\ SET_SOCKTYPE = s_DGRAM
  /\ SOCK_TYPE = "SOCK_DGRAM"
  /\ SOCK_DOMAIN = "PF_LOCAL"
  /\ pc = [p \in Procs |-> IF p = "main" THEN "parseArgs" ELSE "none"]
  /\ status = [p \in Procs |-> "running"]
  /\ atexitHook = FALSE
  /\ site = "none"
  /\ count = 0 /\ i = 0 /\ n = 0
  /\ wcount = 0 /\ wanted = 0 /\ failed = 0
  /\ rtotal = 0 /\ bufsiz = 0
  /\ queue = <<>>
  /\ cap = Cap
  /\ nonblock = {}
  /\ wclosed = FALSE
  /\ listening = FALSE
  /\ conn = "none"
  /\ fs \in InitialFs
  /\ created = {}
  /\ stdout = <<>>
  /\ wlog = <<>>
  /\ rlog = <<>>


(***************************************************************************)
(* Process exit.  exit(3) and err(3) run the atexit hook; so does the      *)
(* return from main.                                                       *)
(***************************************************************************)
\* a cleanup that forgets the fifo
cleanupSocketOnly(files) == files \ {"socket"}

\* cleanup(): unlink("socket"); unlink("fifo")
cleanup(files) == files \ {"socket", "fifo"}

Exit(p, code) ==
  /\ pc' = [pc EXCEPT ![p] = "exited"]
  /\ status' = [status EXCEPT ![p] = code]
  /\ fs' = IF atexitHook THEN cleanup(fs) ELSE fs

\* err(EXIT_FAILURE, ...) with nothing else changed
Err(p) ==
  /\ Exit(p, "EXIT_FAILURE")
  /\ UNCHANGED <<envVars, cfgVars, accVars, atexitHook, wrVars, rdVars,
                 chanVars, sockVars, created, stdout>>

Gone(p) == pc[p] \in {"exited", "killed"}
AllExited == Gone("main") /\ (pc["child"] = "none" \/ Gone("child"))

(***************************************************************************)
(* parseArgs                                                               *)
(***************************************************************************)
OptOk(in, threshold) == in = NoArg \/ InputNumberOk(in, threshold)
OptVal(in, dflt)     == IF in = NoArg THEN dflt ELSE Strtol(in)

\* lines 383-393: an unknown name leaves IPC_TYPE as it is
ParsedIpcType(a) ==
  IF a.t = NoArg THEN "IPC_PIPE"
  ELSE IF StrCaseEq(a.t, s_fifo) THEN "IPC_FIFO"
  ELSE IF StrCaseEq(a.t, s_pipe) THEN "IPC_PIPE"
  ELSE IF StrCaseEq(a.t, s_socket) THEN "IPC_SOCKET"
  ELSE IF StrCaseEq(a.t, s_socketpair) THEN "IPC_SOCKETPAIR"
  ELSE "IPC_PIPE"

ParsedSockArg(a) == IF a.s = NoArg THEN s_DGRAM ELSE a.s

\* lines 414-422
ParsedDomain(a) ==
  IF HasPrefix(ParsedSockArg(a), s_inet_) THEN "PF_INET"
  ELSE IF HasPrefix(ParsedSockArg(a), s_inet6_) THEN "PF_INET6"
  ELSE "PF_LOCAL"

ParsedSockTypeName(a) ==
  IF HasPrefix(ParsedSockArg(a), s_inet_) THEN DropPrefix(ParsedSockArg(a), s_inet_)
  ELSE IF HasPrefix(ParsedSockArg(a), s_inet6_) THEN DropPrefix(ParsedSockArg(a), s_inet6_)
  ELSE ParsedSockArg(a)

\* every check of parseArgs that ends in exit(EXIT_FAILURE) passes
ParseOk(a) ==
  /\ OptOk(a.P, 1) /\ OptOk(a.R, 1) /\ OptOk(a.S, 1) /\ OptOk(a.n, 0)
  /\ Len(a.operands) <= 2
  /\ ~(ParsedIpcType(a) # "IPC_PIPE" /\ OptVal(a.P, -1) # -1)
  /\ ~(a.s # NoArg /\ ParsedIpcType(a) # "IPC_SOCKET"
                   /\ ParsedIpcType(a) # "IPC_SOCKETPAIR")
  /\ ~(HasPrefix(ParsedSockArg(a), s_inet) /\ ParsedIpcType(a) # "IPC_SOCKET")
  /\ \/ StrCaseEq(ParsedSockTypeName(a), s_stream)
     \/ StrCaseEq(ParsedSockTypeName(a), s_dgram)
  /\ \A k \in 1..Len(a.operands) : InputNumberOk(a.operands[k], 0)

ParseArgsAccepts ==
  /\ pc["main"] = "parseArgs"
  /\ ParseOk(argv)
  /\ SET_PIPEBUF' = OptVal(argv.P, SET_PIPEBUF)
  /\ SET_RCVBUF' = OptVal(argv.R, SET_RCVBUF)
  /\ SET_SNDBUF' = OptVal(argv.S, SET_SNDBUF)
  /\ MODE' = IF argv.mode = "c" THEN "CHUNK" ELSE "LOOP"
  /\ NUM_CHUNKS' = OptVal(argv.n, NUM_CHUNKS)
  /\ QUIET' = argv.q
  /\ IPC_TYPE' = ParsedIpcType(argv)
  /\ SOCK_DOMAIN' = ParsedDomain(argv)
  /\ SET_SOCKTYPE' = ParsedSockTypeName(argv)
  /\ SOCK_TYPE' = IF StrCaseEq(ParsedSockTypeName(argv), s_stream)
                  THEN "SOCK_STREAM" ELSE SOCK_TYPE
  /\ CHUNK1' = IF Len(argv.operands) > 0 THEN Strtol(argv.operands[1]) ELSE CHUNK1
  /\ CHUNK2' = IF Len(argv.operands) > 1 THEN Strtol(argv.operands[2]) ELSE CHUNK2
  /\ pc' = [pc EXCEPT !["main"] = "atexit"]
  /\ UNCHANGED <<envVars, accVars, status, atexitHook, wrVars, rdVars, chanVars,
                 sockVars, fs, created, stdout>>

ParseArgsRejects ==
  /\ pc["main"] = "parseArgs"
  /\ ~ParseOk(argv)
  /\ Err("main")

(***************************************************************************)
(* main: atexit(cleanup), then the switch on IPC_TYPE                      *)
(***************************************************************************)
Atexit ==
  /\ pc["main"] = "atexit"
  /\ \/ /\ atexitHook' = TRUE
        /\ pc' = [pc EXCEPT !["main"] =
                    IF IPC_TYPE = "IPC_PIPE" THEN "pipe" ELSE "reportTest"]
        /\ UNCHANGED <<envVars, cfgVars, accVars, status, wrVars, rdVars,
                       chanVars, sockVars, fs, created, stdout>>
     \/ Err("main")

\* reportTest: one "Testing ..." block unless QUIET
ReportTestOut == IF QUIET THEN stdout ELSE Append(stdout, [label |-> "Testing", value |-> 0])

ReportTest ==
  /\ pc["main"] = "reportTest"
  /\ stdout' = ReportTestOut
  /\ pc' = [pc EXCEPT !["main"] =
              CASE IPC_TYPE = "IPC_PIPE" -> "pipeInfo"
                [] IPC_TYPE = "IPC_FIFO" -> "mkfifo"
                [] IPC_TYPE = "IPC_SOCKETPAIR" -> "socketpair"
                [] IPC_TYPE = "IPC_SOCKET" -> "socket"]
  /\ UNCHANGED <<envVars, cfgVars, accVars, status, atexitHook, wrVars, rdVars,
                 chanVars, sockVars, fs, created>>

(***************************************************************************)
(* doPipe                                                                  *)
(***************************************************************************)
Pipe ==
  /\ pc["main"] = "pipe"
  /\ \/ /\ pc' = [pc EXCEPT !["main"] = "setPipeSize"]
        /\ UNCHANGED <<envVars, cfgVars, accVars, status, atexitHook, wrVars,
                       rdVars, chanVars, sockVars, fs, created, stdout>>
     \/ Err("main")

\* a build on which F_SETPIPE_SZ is always defined
HasSetPipeSzAlways == TRUE

\* F_SETPIPE_SZ exists on Linux only
HasSetPipeSz == platform = "linux"

\* the kernel rounds the requested size up to whole pages
RoundUp(x) == ((x + PageSize - 1) \div PageSize) * PageSize

SetPipeSize ==
  /\ pc["main"] = "setPipeSize"
  /\ \/ /\ SET_PIPEBUF = -1
        /\ pc' = [pc EXCEPT !["main"] = "reportTest"]
        /\ UNCHANGED <<envVars, cfgVars, accVars, status, atexitHook, wrVars,
                       rdVars, chanVars, sockVars, fs, created, stdout>>
     \/ /\ SET_PIPEBUF # -1
        /\ ~HasSetPipeSz
        /\ Err("main")
     \/ /\ SET_PIPEBUF # -1
        /\ HasSetPipeSz
        /\ \/ /\ cap' = RoundUp(SET_PIPEBUF)
              /\ pc' = [pc EXCEPT !["main"] = "reportTest"]
              /\ UNCHANGED <<envVars, cfgVars, accVars, status, atexitHook, wrVars,
                             rdVars, queue, nonblock, wclosed, wlog, rlog, sockVars, fs,
                             created, stdout>>
           \/ Err("main")

\* PIPE_BUF, F_GETPIPE_SZ, fpathconf: queries that can only fail
PipeInfo ==
  /\ pc["main"] = "pipeInfo"
  /\ \/ /\ pc' = [pc EXCEPT !["main"] = "writeData"]
        /\ UNCHANGED <<envVars, cfgVars, accVars, status, atexitHook, wrVars,
                       rdVars, chanVars, sockVars, fs, created, stdout>>
     \/ Err("main")

(***************************************************************************)
(* doFifo                                                                  *)
(***************************************************************************)
Mkfifo ==
  /\ pc["main"] = "mkfifo"
  /\ \/ /\ "fifo" \notin fs
        /\ fs' = fs \cup {"fifo"}
        /\ created' = created \cup {"fifo"}
        /\ pc' = [pc EXCEPT !["main"] = "open"]
        /\ UNCHANGED <<envVars, cfgVars, accVars, status, atexitHook, wrVars,
                       rdVars, chanVars, sockVars, stdout>>
     \/ Err("main")

\* open(O_RDONLY|O_NONBLOCK), open(O_WRONLY|O_NONBLOCK)
OpenFifo ==
  /\ pc["main"] = "open"
  /\ \/ /\ nonblock' = {"r", "w"}
        /\ pc' = [pc EXCEPT !["main"] = "writeData"]
        /\ UNCHANGED <<envVars, cfgVars, accVars, status, atexitHook, wrVars,
                       rdVars, queue, cap, wclosed, wlog, rlog, sockVars, fs, created,
                       stdout>>
     \/ Err("main")

(***************************************************************************)
(* doSocketpair, doSocket                                                  *)
(***************************************************************************)
Socketpair ==
  /\ pc["main"] = "socketpair"
  /\ \/ /\ pc' = [pc EXCEPT !["main"] = "setBufferSizes"]
        /\ UNCHANGED <<envVars, cfgVars, accVars, status, atexitHook, wrVars,
                       rdVars, chanVars, sockVars, fs, created, stdout>>
     \/ Err("main")

Socket ==
  /\ pc["main"] = "socket"
  /\ \/ /\ pc' = [pc EXCEPT !["main"] = "bind"]
        /\ UNCHANGED <<envVars, cfgVars, accVars, status, atexitHook, wrVars,
                       rdVars, chanVars, sockVars, fs, created, stdout>>
     \/ Err("main")

\* bind(2), then reportSysctl; a PF_LOCAL bind creates the path "socket"
Bind ==
  /\ pc["main"] = "bind"
  /\ \/ /\ SOCK_DOMAIN = "PF_LOCAL" => "socket" \notin fs
        /\ fs' = IF SOCK_DOMAIN = "PF_LOCAL" THEN fs \cup {"socket"} ELSE fs
        /\ created' = IF SOCK_DOMAIN = "PF_LOCAL" THEN created \cup {"socket"}
                      ELSE created
        /\ pc' = [pc EXCEPT !["main"] =
                    IF SOCK_TYPE = "SOCK_STREAM" THEN "fork" ELSE "connect"]
        /\ UNCHANGED <<envVars, cfgVars, accVars, status, atexitHook, wrVars,
                       rdVars, chanVars, sockVars, stdout>>
     \/ Err("main")

\* fork(2): the parent (pid # 0) goes on to listen, the child to connect
Fork ==
  /\ pc["main"] = "fork"
  /\ \/ /\ pc' = [main |-> "listen", child |-> "usleep"]
        /\ TOTAL' = [TOTAL EXCEPT !["child"] = TOTAL["main"]]
        /\ LARGEST_CHUNK' = [LARGEST_CHUNK EXCEPT !["child"] = LARGEST_CHUNK["main"]]
        /\ UNCHANGED <<envVars, cfgVars, status, atexitHook, wrVars, rdVars,
                       chanVars, sockVars, fs, created, stdout>>
     \/ Err("main")

Listen ==
  /\ pc["main"] = "listen"
  /\ \/ /\ listening' = TRUE
        /\ pc' = [pc EXCEPT !["main"] = "accept"]
        /\ UNCHANGED <<envVars, cfgVars, accVars, status, atexitHook, wrVars,
                       rdVars, chanVars, conn, fs, created, stdout>>
     \/ Err("main")

\* accept(2) on the blocking listening socket returns once a connection is pending
Accept ==
  /\ pc["main"] = "accept"
  /\ conn = "pending"
  /\ \/ /\ conn' = "accepted"
        /\ pc' = [pc EXCEPT !["main"] = "setBufferSizesSrv"]
        /\ UNCHANGED <<envVars, cfgVars, accVars, status, atexitHook, wrVars,
                       rdVars, chanVars, listening, fs, created, stdout>>
     \/ Err("main")

\* setBufferSizes(rfd, -1) in the accepting process
SetBufferSizesSrv ==
  /\ pc["main"] = "setBufferSizesSrv"
  /\ \/ /\ pc' = [pc EXCEPT !["main"] = "waitpid"]
        /\ UNCHANGED <<envVars, cfgVars, accVars, status, atexitHook, wrVars,
                       rdVars, chanVars, sockVars, fs, created, stdout>>
     \/ /\ SET_RCVBUF >= 0
        /\ Err("main")

\* a waitpid that returns at once (WNOHANG)
WaitpidNoHang ==
  /\ pc["main"] = "waitpid"
  /\ \/ /\ pc' = [pc EXCEPT !["main"] = "readData"]
        /\ UNCHANGED <<envVars, cfgVars, accVars, status, atexitHook, wrVars,
                       rdVars, chanVars, sockVars, fs, created, stdout>>
     \/ Err("main")

\* waitpid(pid, NULL, 0) returns once the child has terminated
Waitpid ==
  /\ pc["main"] = "waitpid"
  /\ Gone("child")
  /\ \/ /\ pc' = [pc EXCEPT !["main"] = "readData"]
        /\ UNCHANGED <<envVars, cfgVars, accVars, status, atexitHook, wrVars,
                       rdVars, chanVars, sockVars, fs, created, stdout>>
     \/ Err("main")

\* the child: usleep(500), then a new socket
Usleep ==
  /\ pc["child"] = "usleep"
  /\ \/ /\ pc' = [pc EXCEPT !["child"] = "connect"]
        /\ UNCHANGED <<envVars, cfgVars, accVars, status, atexitHook, wrVars,
                       rdVars, chanVars, sockVars, fs, created, stdout>>
     \/ Err("child")

\* the process that connects and writes
Writer == IF SOCK_TYPE = "SOCK_STREAM" /\ IPC_TYPE = "IPC_SOCKET" THEN "child" ELSE "main"

\* connect(2): a stream socket needs a listening peer; a datagram socket connects to itself
Connect(p) ==
  /\ pc[p] = "connect"
  /\ \/ /\ SOCK_TYPE = "SOCK_STREAM" => (listening /\ ~Gone("main"))
        /\ conn' = IF SOCK_TYPE = "SOCK_STREAM" THEN "pending" ELSE conn
        /\ pc' = [pc EXCEPT ![p] = "setBufferSizes"]
        /\ UNCHANGED <<envVars, cfgVars, accVars, status, atexitHook, wrVars,
                       rdVars, chanVars, listening, fs, created, stdout>>
     \/ Err(p)

\* setBufferSizes(rfd, wfd), then printSockOpt twice
SetBufferSizes(p) ==
  /\ pc[p] = "setBufferSizes"
  /\ \/ /\ pc' = [pc EXCEPT ![p] = "writeData"]
        /\ UNCHANGED <<envVars, cfgVars, accVars, status, atexitHook, wrVars,
                       rdVars, chanVars, sockVars, fs, created, stdout>>
     \/ /\ SET_RCVBUF >= 0 \/ SET_SNDBUF >= 0 \/ ~QUIET
        /\ Err(p)


(***************************************************************************)
(* The kernel side of write(2), read(2) and the queue-size ioctl           *)
(***************************************************************************)
IsSocketIpc == IPC_TYPE \in {"IPC_SOCKET", "IPC_SOCKETPAIR"}
IsDgram     == IsSocketIpc /\ SOCK_TYPE = "SOCK_DGRAM"
Free        == cap - Sum(queue)

\* the accepting process of a stream socket has exited: the connection is gone
PeerGone == Writer = "child" /\ Gone("main")

\* a byte-stream write larger than this may be accepted in part
AtomicSize == IF IsSocketIpc THEN 1 ELSE PipeBuf

Ok(k)      == [n |-> k, errno |-> "OK"]
Fail(name) == [n |-> -1, errno |-> name]

\* a full datagram queue: EAGAIN on Linux, ENOBUFS on the BSDs
DgramFull == IF platform = "linux" THEN Fail("EAGAIN") ELSE Fail("ENOBUFS")

\* what write(fd, buf, cnt) on the nonblocking write endpoint can return: any
\* other error at any time; EPIPE once the peer is gone; a datagram whole or
\* not at all; a byte stream in full if it fits, else (above the atomic size,
\* with room left) the part that fits, else EAGAIN
WriteResults(cnt) ==
  {Fail("EIO")} \cup
  IF PeerGone THEN {Fail("EPIPE")}
  ELSE IF IsDgram THEN
    IF cnt > MaxMsg THEN {Fail("EMSGSIZE")}
    ELSE IF Len(queue) < MaxQLen /\ cnt <= Free THEN {Ok(cnt)}
    ELSE {DgramFull}
  ELSE IF cnt <= Free THEN {Ok(cnt)}
  ELSE IF cnt > AtomicSize /\ Free > 0 THEN {Ok(Free)}
  ELSE {Fail("EAGAIN")}

\* the channel after k bytes were accepted in one call
Enqueue(q, k) ==
  IF IsDgram THEN Append(q, k)
  ELSE IF k = 0 THEN q
  ELSE IF q = <<>> THEN <<k>>
  ELSE <<q[1] + k>>

\* all write ends of the channel are closed
WriterClosed == wclosed \/ (Writer = "child" /\ Gone("child"))

\* what read(fd, buf, size) on the nonblocking read endpoint can return
ReadResults(size) ==
  {Fail("EIO")} \cup
  IF queue = <<>> THEN (IF WriterClosed THEN {Ok(0)} ELSE {Fail("EAGAIN")})
  ELSE {Ok(Min(size, queue[1]))}

\* the channel after a read that returned k bytes
Dequeue(q, k) ==
  IF IsDgram \/ k = q[1] THEN Tail(q)
  ELSE <<q[1] - k>> \o Tail(q)

\* printFdQueueSize issues the ioctl: FreeBSD and Linux only on sockets, and
\* FIONSPACE does not exist on Linux
Queried(which) ==
  /\ platform \in {"linux", "freebsd"} => IsSocketIpc
  /\ which = "space" => platform # "linux"

\* FIONREAD / SIOCINQ: Linux reports the first datagram, the BSDs the bytes queued
QueueSizeRead ==
  IF ~Queried("read") THEN -1
  ELSE IF queue = <<>> THEN 0
  ELSE IF IsDgram /\ platform = "linux" THEN queue[1]
  ELSE Sum(queue)

(***************************************************************************)
(* writeData, writeLoop, writeChunk                                        *)
(***************************************************************************)
\* a datagram Socket reads and writes on the one descriptor
SameFd == IPC_TYPE = "IPC_SOCKET" /\ SOCK_TYPE = "SOCK_DGRAM"
\* an fcntl that reaches the write endpoint only
SetNonblockWriteEnd(flags, end) == flags \cup {"w"}

\* fcntl(fd, F_SETFL, O_NONBLOCK) on one end of the channel
SetNonblock(flags, end) == IF SameFd THEN flags \cup {"r", "w"} ELSE flags \cup {end}

\* chunk mode: "if (CHUNK2 < 1) { i = 1; CHUNK2 = CHUNK1; }"
ChunkStart(chunk2)          == IF chunk2 < 1 THEN 1 ELSE 0
ChunkSecond(chunk1, chunk2) == IF chunk2 < 1 THEN chunk1 ELSE chunk2

WriteData(p) ==
  /\ pc[p] = "writeData"
  /\ \/ /\ nonblock' = SetNonblock(nonblock, "w")
        /\ IF MODE = "LOOP"
           THEN /\ site' = "loop"
                /\ count' = CHUNK1
                /\ i' = 0
                /\ CHUNK2' = CHUNK2
           ELSE /\ site' = "first"
                /\ count' = count
                /\ i' = ChunkStart(CHUNK2)
                /\ CHUNK2' = ChunkSecond(CHUNK1, CHUNK2)
        /\ wanted' = CHUNK1 /\ wcount' = CHUNK1 /\ failed' = 0
        /\ pc' = [pc EXCEPT ![p] = "write"]
        /\ UNCHANGED <<envVars, IPC_TYPE, MODE, CHUNK1, NUM_CHUNKS, QUIET,
                       SET_RCVBUF, SET_SNDBUF, SET_PIPEBUF, SET_SOCKTYPE, SOCK_TYPE,
                       SOCK_DOMAIN, accVars, status, atexitHook, n, rdVars, queue,
                       cap, wclosed, wlog, rlog, sockVars, fs, created, stdout>>
     \/ Err(p)

\* a writeLoop that always adds inc
NextCountAdds(c, inc) == c + inc

\* writeLoop: "if (inc == -1) count *= 2; else count += inc;"
NextCount(c, inc) == IF inc = -1 THEN c * 2 ELSE c + inc

\* a writeLoop that goes on after a failed writeChunk
LoopStopsOnShort(ret, c) == ret # c /\ ret >= 0

\* writeLoop: "if ((n != count) || (n < 0))"
LoopStops(ret, c) == ret # c \/ ret < 0

Incr(x) == (x + 1) % IterMod

\* a writeLoop that counts the last call whatever it returned
IterAtBreakAlways(iv, ret) == Incr(iv)

\* writeLoop: "if (n > 0) i++;" before the break
IterAtBreak(iv, ret) == IF ret > 0 THEN Incr(iv) ELSE iv

\* a writeChunk that assigns instead of adding
AddTotalAssigns(t, k) == k

\* writeChunk: "TOTAL += n"
AddTotal(t, k) == t + k

\* a writeChunk that remembers the last chunk instead of the largest
NewLargestLast(l, k) == k

\* writeChunk: "if (n > LARGEST_CHUNK) LARGEST_CHUNK = n"
NewLargest(l, k) == IF k > l THEN k ELSE l

\* a writeChunk that halves the size
ShrinkHalves(c) == c \div 2

\* writeChunk: "count--" on EMSGSIZE or ENOBUFS
Shrink(c) == c - 1

Log(e) == IF Len(wlog) < MaxLog THEN Append(wlog, e) ELSE wlog
Entry(r) == [wanted |-> wanted, count |-> wcount, n |-> r.n, errno |-> r.errno]

IterationsOut(iv) ==
  IF QUIET THEN stdout ELSE Append(stdout, [label |-> "Iterations", value |-> iv])

\* writeChunk(fd, c) is entered: wanted = count; malloc; memset
Call(c) == wanted' = c /\ wcount' = c /\ failed' = 0

\* writeChunk returned ret to its call site: run the caller to its next system call
Return(p, ret) ==
  CASE site = "loop" ->
         /\ n' = ret
         /\ IF LoopStops(ret, count)
            THEN /\ i' = IterAtBreak(i, ret)
                 /\ stdout' = IterationsOut(i')
                 /\ pc' = [pc EXCEPT ![p] = "report"]
                 /\ UNCHANGED <<site, count, wcount, wanted, failed>>
            ELSE /\ count' = NextCount(count, CHUNK2)
                 /\ i' = Incr(i)
                 /\ Call(count')
                 /\ UNCHANGED <<pc, site, stdout>>
    [] site = "first" ->
         /\ IF i < NUM_CHUNKS
            THEN Call(CHUNK2) /\ site' = "more" /\ pc' = pc
            ELSE /\ pc' = [pc EXCEPT ![p] = "report"]
                 /\ UNCHANGED <<site, wcount, wanted, failed>>
         /\ UNCHANGED <<count, i, n, stdout>>
    [] site = "more" ->
         /\ i' = Incr(i)
         /\ IF i' < NUM_CHUNKS
            THEN Call(CHUNK2) /\ pc' = pc
            ELSE /\ pc' = [pc EXCEPT ![p] = "report"]
                 /\ UNCHANGED <<wcount, wanted, failed>>
         /\ UNCHANGED <<site, count, n, stdout>>

\* write(2) accepted r.n >= 0 bytes
WriteAccepted(p) ==
  /\ pc[p] = "write"
  /\ \E r \in WriteResults(wcount) :
       /\ r.n >= 0
       /\ TOTAL' = [TOTAL EXCEPT ![p] = AddTotal(@, r.n)]
       /\ LARGEST_CHUNK' = [LARGEST_CHUNK EXCEPT ![p] = NewLargest(@, r.n)]
       /\ queue' = Enqueue(queue, r.n)
       /\ wlog' = Log(Entry(r))
       /\ Return(p, r.n)
  /\ UNCHANGED <<envVars, cfgVars, status, atexitHook, rdVars, cap, nonblock,
                 wclosed, rlog, sockVars, fs, created>>

\* EMSGSIZE or ENOBUFS: one byte less, again, or give up below one byte
WriteShrinks(p) ==
  /\ pc[p] = "write"
  /\ \E r \in WriteResults(wcount) :
       /\ r.errno \in {"EMSGSIZE", "ENOBUFS"}
       /\ wlog' = Log(Entry(r))
       /\ IF Shrink(wcount) < 1
          THEN Return(p, -1)
          ELSE /\ wcount' = Shrink(wcount)
               /\ failed' = 1
               /\ UNCHANGED <<pc, site, count, i, n, wanted, stdout>>
  /\ UNCHANGED <<envVars, cfgVars, accVars, status, atexitHook, rdVars, queue, cap,
                 nonblock, wclosed, rlog, sockVars, fs, created>>

\* EAGAIN: writeChunk returns -1
WriteWouldBlock(p) ==
  /\ pc[p] = "write"
  /\ \E r \in WriteResults(wcount) :
       /\ r.errno = "EAGAIN"
       /\ wlog' = Log(Entry(r))
       /\ Return(p, -1)
  /\ UNCHANGED <<envVars, cfgVars, accVars, status, atexitHook, rdVars, queue, cap,
                 nonblock, wclosed, rlog, sockVars, fs, created>>

\* any other errno: err(EXIT_FAILURE, "write")
WriteFails(p) ==
  /\ pc[p] = "write"
  /\ \E r \in WriteResults(wcount) :
       /\ r.errno = "EIO"
       /\ wlog' = Log(Entry(r))
  /\ Exit(p, "EXIT_FAILURE")
  /\ UNCHANGED <<envVars, cfgVars, accVars, atexitHook, wrVars, rdVars, queue, cap,
                 nonblock, wclosed, rlog, sockVars, created, stdout>>

\* EPIPE on a connection whose peer is gone: SIGPIPE ends the process, no exit hook
WriteSigpipe(p) ==
  /\ pc[p] = "write"
  /\ \E r \in WriteResults(wcount) :
       /\ r.errno = "EPIPE"
       /\ wlog' = Log(Entry(r))
  /\ pc' = [pc EXCEPT ![p] = "killed"]
  /\ status' = [status EXCEPT ![p] = "SIGPIPE"]
  /\ UNCHANGED <<envVars, cfgVars, accVars, atexitHook, wrVars, rdVars, queue, cap,
                 nonblock, wclosed, rlog, sockVars, fs, created, stdout>>

ObservedOut ==
  Append(stdout, [label |-> IF QUIET THEN "total" ELSE "Observed total",
                  value |-> TOTAL[Writer]])

\* the end of writeData: the "write" queue size, the observed total, close on a
\* pipe or fifo; the child of a stream Socket then returns through main and exits
Report(p) ==
  /\ pc[p] = "report"
  /\ \/ /\ stdout' = ObservedOut
        /\ wclosed' = (IPC_TYPE \in {"IPC_PIPE", "IPC_FIFO"})
        /\ IF p = "child"
           THEN Exit(p, "EXIT_SUCCESS")
           ELSE /\ pc' = [pc EXCEPT ![p] = "readData"]
                /\ UNCHANGED <<status, fs>>
        /\ UNCHANGED <<envVars, cfgVars, accVars, atexitHook, wrVars, rdVars, queue,
                       cap, nonblock, wlog, rlog, sockVars, created>>
     \/ /\ Queried("write")
        /\ Err(p)

(***************************************************************************)
(* readData                                                                *)
(***************************************************************************)
\* "int bufsiz = BUFSIZ; if (LARGEST_CHUNK > bufsiz) bufsiz = LARGEST_CHUNK;"
ReadBufSize(largest) == IF largest > BufSiz THEN largest ELSE BufSiz

ReadData(p) ==
  /\ pc[p] = "readData"
  /\ \/ /\ bufsiz' = ReadBufSize(LARGEST_CHUNK[p])
        /\ rtotal' = 0
        /\ nonblock' = SetNonblock(nonblock, "r")
        /\ pc' = [pc EXCEPT ![p] = "read"]
        /\ UNCHANGED <<envVars, cfgVars, accVars, status, atexitHook, wrVars, queue,
                       cap, wclosed, wlog, rlog, sockVars, fs, created, stdout>>
     \/ Err(p)

\* a readData that counts the buffer size instead of what read(2) returned
AddReadSize(t, k, size) == t + size

\* readData: "total += nr"
AddRead(t, k, size) == t + k

RLog(e) == IF Len(rlog) < MaxLog THEN Append(rlog, e) ELSE rlog
REntry(r) == [size |-> bufsiz, n |-> r.n, errno |-> r.errno]

\* read(2) returned nr >= 0: count it and go round, or stop at end of file
ReadReturns(p, r) ==
  /\ r.n >= 0
  /\ rtotal' = AddRead(rtotal, r.n, bufsiz)
  /\ queue' = IF queue = <<>> THEN queue ELSE Dequeue(queue, r.n)
  /\ pc' = [pc EXCEPT ![p] = IF r.n = 0 THEN "finish" ELSE "read"]
  /\ UNCHANGED <<envVars, cfgVars, accVars, status, atexitHook, wrVars,
                 bufsiz, cap, nonblock, wclosed, wlog, sockVars, fs,
                 created, stdout>>

\* read(2) failed with EAGAIN: leave the loop
ReadWouldBlock(p, r) ==
  /\ r.errno = "EAGAIN"
  /\ pc' = [pc EXCEPT ![p] = "finish"]
  /\ UNCHANGED <<envVars, cfgVars, accVars, status, atexitHook, wrVars,
                 rdVars, queue, cap, nonblock, wclosed, wlog, sockVars, fs,
                 created, stdout>>

\* a readData that takes any failed read for the end of the data
ReadFailsGoesOn(p, r) ==
  /\ r.errno = "EIO"
  /\ pc' = [pc EXCEPT ![p] = "finish"]
  /\ UNCHANGED <<envVars, cfgVars, accVars, status, atexitHook, wrVars,
                 rdVars, queue, cap, nonblock, wclosed, wlog, sockVars, fs,
                 created, stdout>>

\* read(2) failed with anything else: err(EXIT_FAILURE, "read")
ReadFails(p, r) ==
  /\ r.errno = "EIO"
  /\ Exit(p, "EXIT_FAILURE")
  /\ UNCHANGED <<envVars, cfgVars, accVars, atexitHook, wrVars, rdVars, queue,
                 cap, nonblock, wclosed, wlog, sockVars, created, stdout>>

\* one turn of the loop: the "read" queue size, then read(2)
Read(p) ==
  /\ pc[p] = "read"
  /\ \/ /\ QueueSizeRead = 0
        /\ pc' = [pc EXCEPT ![p] = "finish"]
        /\ UNCHANGED <<envVars, cfgVars, accVars, status, atexitHook, wrVars, rdVars,
                       chanVars, sockVars, fs, created, stdout>>
     \/ /\ QueueSizeRead # 0
        /\ \E r \in ReadResults(bufsiz) :
             /\ rlog' = RLog(REntry(r))
             /\ \/ ReadReturns(p, r)
                \/ ReadWouldBlock(p, r)
                \/ ReadFails(p, r)
     \/ /\ Queried("read")
        /\ Err(p)

ReadOut == IF QUIET THEN stdout ELSE Append(stdout, [label |-> "Read", value |-> rtotal])

\* readData prints its total and returns; a datagram Socket unlinks "socket";
\* then exit(EXIT_SUCCESS) or the return from main
Finish(p) ==
  /\ pc[p] = "finish"
  /\ stdout' = ReadOut
  /\ pc' = [pc EXCEPT ![p] = "exited"]
  /\ status' = [status EXCEPT ![p] = "EXIT_SUCCESS"]
  /\ fs' = LET left == IF SameFd THEN fs \ {"socket"} ELSE fs
           IN  IF atexitHook THEN cleanup(left) ELSE left
  /\ UNCHANGED <<envVars, cfgVars, accVars, atexitHook, wrVars, rdVars, chanVars,
                 sockVars, created>>

(***************************************************************************)
(* The specification                                                       *)
(***************************************************************************)
Step(p) ==
  \/ Connect(p)
  \/ SetBufferSizes(p)
  \/ WriteData(p)
  \/ WriteAccepted(p)
  \/ WriteShrinks(p)
  \/ WriteWouldBlock(p)
  \/ WriteFails(p)
  \/ WriteSigpipe(p)
  \/ Report(p)
  \/ ReadData(p)
  \/ Read(p)
  \/ Finish(p)

MainStep ==
  \/ ParseArgsAccepts
  \/ ParseArgsRejects
  \/ Atexit
  \/ ReportTest
  \/ Pipe
  \/ SetPipeSize
  \/ PipeInfo
  \/ Mkfifo
  \/ OpenFifo
  \/ Socketpair
  \/ Socket
  \/ Bind
  \/ Fork
  \/ Listen
  \/ Accept
  \/ SetBufferSizesSrv
  \/ Waitpid
  \/ Step("main")

ChildStep ==
  \/ Usleep
  \/ Step("child")

Next == MainStep \/ ChildStep

Spec == Init /\ [][Next]_vars

\* the scheduler runs every process that can take a step
FairSpec == Spec /\ WF_vars(MainStep) /\ WF_vars(ChildStep)


(***************************************************************************)
(* Reading the record of write(2) calls                                    *)
(***************************************************************************)
LogOpen        == Len(wlog) < MaxLog      \* every call so far is in wlog
ShrinkClass(e) == e.errno \in {"EMSGSIZE", "ENOBUFS"}
\* the call of writeChunk ends with this write
CallEnds(e)    == ~ShrinkClass(e) \/ e.count <= 1
\* writeChunk returned what its caller asked for
FullReturn(e)  == e.n >= 0 /\ e.n = e.wanted
\* the writes that start a call of writeChunk
CallStarts     == {k \in 1..Len(wlog) : k = 1 \/ CallEnds(wlog[k - 1])}
IsAccepted(e)  == e.n >= 0
Accepted       == SelectSeq(wlog, IsAccepted)
AcceptedSizes  == [k \in 1..Len(Accepted) |-> Accepted[k].n]
Last(s)        == s[Len(s)]
\* this step issued a write(2) that wlog records
Wrote          == Len(wlog') = Len(wlog) + 1
\* the size writeLoop asks for after a full write of w
Grown(w)       == IF CHUNK2 = -1 THEN 2 * w ELSE w + CHUNK2

RECURSIVE Pow2(_)
Pow2(k) == IF k = 0 THEN 1 ELSE 2 * Pow2(k - 1)

(***************************************************************************)
(* C1: in loop mode the first chunk attempted has the initial size; after  *)
(* a writeChunk that returned the size asked for, the next size is twice   *)
(* that size (no increment) or that size plus the increment; after the     *)
(* first writeChunk that returned anything else no writeChunk is called.   *)
(***************************************************************************)
C1_LoopProgression ==
  MODE = "LOOP" =>
    /\ (pc[Writer] = "write" /\ wlog = <<>>) => (wanted = CHUNK1 /\ wcount = CHUNK1)
    /\ wlog # <<>> => (wlog[1].wanted = CHUNK1 /\ wlog[1].count = CHUNK1)
    /\ \A k \in 1..(Len(wlog) - 1) :
         IF CallEnds(wlog[k])
         THEN /\ FullReturn(wlog[k])
              /\ wlog[k + 1].wanted = Grown(wlog[k].wanted)
              /\ wlog[k + 1].count = wlog[k + 1].wanted
         ELSE wlog[k + 1].wanted = wlog[k].wanted
    /\ (wlog # <<>> /\ LogOpen) =>
         IF CallEnds(Last(wlog))
         THEN IF FullReturn(Last(wlog))
              THEN /\ pc[Writer] = "write"
                   /\ wanted = Grown(Last(wlog).wanted)
                   /\ wcount = wanted
              ELSE pc[Writer] # "write"
         ELSE pc[Writer] = "write" /\ wanted = Last(wlog).wanted

\* three full writes of doubling size, then a would-block that ended the loop
C1_Witness ==
  /\ MODE = "LOOP" /\ CHUNK2 = -1 /\ CHUNK1 = 1
  /\ Len(wlog) = 4
  /\ FullReturn(wlog[1]) /\ FullReturn(wlog[2]) /\ FullReturn(wlog[3])
  /\ wlog[3].wanted = 4
  /\ wlog[4].wanted = 8 /\ wlog[4].errno = "EAGAIN"
  /\ pc[Writer] = "report"

(***************************************************************************)
(* C2: once a write fails with would-block, no further write is issued on  *)
(* the endpoint for the rest of the run, in loop mode and in chunk mode,   *)
(* and the run goes on to reporting instead of aborting.                   *)
(***************************************************************************)
C2_WouldBlockEndsWriting ==
  [][Wrote =>
       /\ wlog # <<>> => Last(wlog).errno # "EAGAIN"
       /\ Last(wlog').errno = "EAGAIN" =>
            (pc'[Writer] = "report" /\ status'[Writer] = "running")]_vars

\* C2 as amended: in loop mode a would-block is the last write of the run; in
\* chunk mode it ends only the running writeChunk (no retry of that chunk) and
\* the chunks still to come are attempted; in both modes the process goes on
\* (to the next chunk or to the report) and does not abort.
C2_WouldBlockEndsChunk ==
  [][Wrote =>
       /\ (MODE = "LOOP" /\ wlog # <<>>) => Last(wlog).errno # "EAGAIN"
       /\ Last(wlog').errno = "EAGAIN" =>
            /\ status'[Writer] = "running"
            /\ accVars' = accVars
            /\ IF MODE = "LOOP"
               THEN pc'[Writer] = "report"
               ELSE \/ pc'[Writer] = "report"
                    \/ /\ pc'[Writer] = "write"
                       /\ site' = "more"
                       /\ (site = "more" => i' = i + 1)
                       /\ wanted' = CHUNK2 /\ wcount' = CHUNK2]_vars

\* loop mode: the would-block was the last write and the drain has begun
C2_Witness ==
  /\ MODE = "LOOP"
  /\ wlog # <<>> /\ Last(wlog).errno = "EAGAIN"
  /\ Len(Accepted) >= 1
  /\ pc["main"] = "read"

(***************************************************************************)
(* C3: chunk mode makes one writeChunk call of the initial size and then   *)
(* exactly NUM_CHUNKS calls of the second size (the initial size when no   *)
(* second size was given), whatever the calls return.                      *)
(***************************************************************************)
SecondGiven == Len(argv.operands) > 1
SecondSize  == IF SecondGiven THEN Strtol(argv.operands[2]) ELSE CHUNK1

C3_ChunkCalls ==
  (MODE = "CHUNK" /\ pc[Writer] = "report") =>
    /\ Cardinality(CallStarts) = 1 + NUM_CHUNKS
    /\ \A k \in CallStarts :
         wlog[k].wanted = IF k = 1 THEN CHUNK1 ELSE SecondSize

(***************************************************************************)
(* C4: inside one writeChunk every EMSGSIZE/ENOBUFS failure lowers the     *)
(* size by exactly one and retries; the size never grows and stays         *)
(* between 1 and the size asked for, so a call that asked for w > 0 makes  *)
(* at most w writes; at size zero writeChunk fails and TOTAL is unchanged. *)
(***************************************************************************)
C4_ShrinkByOne ==
  [][Wrote =>
       /\ Last(wlog').count <= Last(wlog').wanted
       /\ Last(wlog').wanted >= 1 => Last(wlog').count >= 1
       /\ ShrinkClass(Last(wlog')) =>
            /\ accVars' = accVars
            /\ queue' = queue
            /\ IF Last(wlog').count > 1
               THEN /\ pc'[Writer] = "write"
                    /\ wanted' = wanted
                    /\ wcount' = wcount - 1
                    /\ wcount' >= 1
               ELSE /\ site = "loop" => (n' = -1 /\ pc'[Writer] = "report")
                    /\ site # "loop" =>
                         (pc'[Writer] = "report" \/ wcount' = wanted')
       /\ (wlog # <<>> /\ ~CallEnds(Last(wlog))) =>
            /\ Last(wlog').wanted = Last(wlog).wanted
            /\ Last(wlog').count = Last(wlog).count - 1]_vars

\* a call that asked for two bytes shrank to zero and gave up
C4_Witness ==
  /\ Len(wlog) >= 2
  /\ Last(wlog).wanted = 2 /\ Last(wlog).count = 1 /\ ShrinkClass(Last(wlog))
  /\ wlog[Len(wlog) - 1].count = 2 /\ ShrinkClass(wlog[Len(wlog) - 1])
  /\ pc[Writer] = "report"

(***************************************************************************)
(* C5: in loop mode every accepted chunk size is at least the accepted     *)
(* size before it, and the running total is the sum of the accepted sizes. *)
(***************************************************************************)
C5_LoopMonotonic ==
  (MODE = "LOOP" /\ LogOpen) =>
    /\ \A k \in 1..(Len(Accepted) - 1) : Accepted[k].n <= Accepted[k + 1].n
    /\ TOTAL[Writer] = Sum(AcceptedSizes)

\* C5 as amended: every accepted size but the last is a full write and at least
\* the one before it; the last accepted write (a short or shrunk write, which
\* ends the loop) may be smaller; the running total is the sum of them all.
C5_LoopMonotonicButLast ==
  (MODE = "LOOP" /\ LogOpen) =>
    /\ \A k \in 1..(Len(Accepted) - 1) : Accepted[k].n = Accepted[k].wanted
    /\ \A k \in 1..(Len(Accepted) - 2) : Accepted[k].n <= Accepted[k + 1].n
    /\ TOTAL[Writer] = Sum(AcceptedSizes)

\* the last accepted write is smaller than the one before it
C5_Witness ==
  /\ MODE = "LOOP" /\ LogOpen
  /\ Len(Accepted) >= 3
  /\ Last(Accepted).n < Accepted[Len(Accepted) - 1].n
  /\ pc[Writer] = "report"
  /\ TOTAL[Writer] = Sum(AcceptedSizes)


(***************************************************************************)
(* C6: in chunk mode the total written is at most the initial chunk plus   *)
(* NUM_CHUNKS times the second chunk size, and equal to it in every run in *)
(* which no write was shrunk by EMSGSIZE/ENOBUFS.                          *)
(***************************************************************************)
NoShrink == \A k \in 1..Len(wlog) : ~ShrinkClass(wlog[k])

C6_ChunkAccounting ==
  (MODE = "CHUNK" /\ pc[Writer] = "report") =>
    /\ TOTAL[Writer] <= CHUNK1 + NUM_CHUNKS * SecondSize
    /\ NoShrink => TOTAL[Writer] = CHUNK1 + NUM_CHUNKS * SecondSize

(***************************************************************************)
(* C7: a Pipe in loop mode, initial size 1, no increment: the sizes        *)
(* attempted are 1, 2, 4, 8, ... until a would-block, and the iteration    *)
(* count reported is the number of accepted writes plus one for the write  *)
(* that triggered the stop.                                                *)
(***************************************************************************)
PipeDoubling ==
  /\ pc["main"] # "parseArgs"
  /\ IPC_TYPE = "IPC_PIPE" /\ MODE = "LOOP" /\ CHUNK1 = 1 /\ CHUNK2 = -1

IterationsLine(v) ==
  stdout # <<>> /\ Last(stdout) = [label |-> "Iterations", value |-> v]

C7_IterationsPlusOne ==
  PipeDoubling =>
    /\ \A k \in 1..Len(wlog) : wlog[k].count = Pow2(k - 1)
    /\ pc["main"] = "report" =>
         /\ Last(wlog).errno = "EAGAIN"
         /\ IterationsLine(Len(Accepted) + 1)

\* C7 as amended: the sizes attempted are 1, 2, 4, 8, ... until the first write
\* that is not accepted in full (a would-block or a short write), and the
\* iteration count reported is the number of accepted writes: a would-block
\* that ends the loop is not counted.
C7_IterationsAccepted ==
  PipeDoubling =>
    /\ \A k \in 1..Len(wlog) : wlog[k].count = Pow2(k - 1)
    /\ pc["main"] = "report" =>
         /\ ~FullReturn(Last(wlog))
         /\ i = Len(Accepted)
         /\ IterationsLine(Len(Accepted))

\* 1, 2 and 4 bytes accepted, 8 refused: three iterations reported
C7_Witness ==
  /\ PipeDoubling
  /\ pc["main"] = "report"
  /\ Len(wlog) = 4 /\ Last(wlog).count = 8 /\ Last(wlog).errno = "EAGAIN"
  /\ Len(Accepted) = 3
  /\ IterationsLine(3)

(***************************************************************************)
(* C8: a run with initial chunk size 0 runs to completion and reports a    *)
(* total >= 0, for every variant, in loop mode (no increment, increment 0, *)
(* positive increment) and in chunk mode.  Checked under FairSpec; a run   *)
(* that aborts fatally is not held against the claim.                      *)
(***************************************************************************)
SomeFailed == \E p \in Procs : status[p] \in {"EXIT_FAILURE", "SIGPIPE"}

TotalReported ==
  \E k \in 1..Len(stdout) :
    stdout[k].label \in {"Observed total", "total"} /\ stdout[k].value >= 0

C8_ZeroProbeCompletes ==
  (pc["main"] = "atexit" /\ CHUNK1 = 0) ~> (SomeFailed \/ (AllExited /\ TotalReported))

(***************************************************************************)
(* C9: in a stream Socket run a provisioning failure in either process     *)
(* ends the whole run: no process is left blocked in accept or waitpid     *)
(* with nothing that can wake it.                                          *)
(***************************************************************************)
C9_FailureEndsRun ==
  (IPC_TYPE = "IPC_SOCKET" /\ SOCK_TYPE = "SOCK_STREAM" /\ SomeFailed) =>
    (AllExited \/ ENABLED Next)

(***************************************************************************)
(* C10: once every process of the run has exited, after success or after a *)
(* fatal abort at any system call, no "fifo" or "socket" path that this    *)
(* run created remains.                                                    *)
(***************************************************************************)
C10_NoPathLeft == AllExited => created \cap fs = {}

\* a run that created a path and then aborted
C10_Witness == AllExited /\ created # {} /\ SomeFailed

(***************************************************************************)
(* Reading the record of read(2) calls                                     *)
(***************************************************************************)
RLogOpen    == Len(rlog) < MaxLog        \* every read so far is in rlog
\* this step issued a read(2) that rlog records
ReadIssued  == Len(rlog') = Len(rlog) + 1
Returned(e) == e.n >= 0
ReadSizes   == LET got == SelectSeq(rlog, Returned)
               IN  [k \in 1..Len(got) |-> got[k].n]
\* the process that calls readData
Reader      == "main"

(***************************************************************************)
(* C11: the bytes the reads of readData returned never exceed the bytes    *)
(* writeData wrote to the same channel in the same run, in every variant   *)
(* and both modes, also when a stream Socket is drained by the accepting   *)
(* process and written by the connecting one.                              *)
(***************************************************************************)
C11_DrainAtMostWritten ==
  /\ rtotal <= TOTAL[Writer]
  /\ rtotal + Sum(queue) <= TOTAL[Writer]
  /\ RLogOpen => rtotal = Sum(ReadSizes)

\* a stream Socket: the parent has read all the child wrote, in several reads
C11_Witness ==
  /\ IPC_TYPE = "IPC_SOCKET" /\ SOCK_TYPE = "SOCK_STREAM"
  /\ pc["main"] = "finish"
  /\ Len(ReadSizes) >= 3
  /\ rtotal = TOTAL["child"] /\ rtotal >= 3

(***************************************************************************)
(* C12: when readData leaves its loop normally the read side holds no      *)
(* unread data, for every sequence of accepted writes, also when an        *)
(* accepted zero-length write (a zero-length datagram) is followed by      *)
(* non-empty ones.                                                         *)
(***************************************************************************)
C12_DrainLeavesNothing ==
  pc[Reader] = "finish" => Sum(queue) = 0

(***************************************************************************)
(* C13: whenever readData issues a read, its buffer is at least as large   *)
(* as the largest chunk writeData wrote in this run, in every variant,     *)
(* also for a stream Socket, drained by the accepting process and written  *)
(* by the connecting one.                                                  *)
(***************************************************************************)
C13_BufferHoldsLargest ==
  [][ReadIssued =>
       /\ bufsiz >= LARGEST_CHUNK[Writer]
       /\ \A k \in 1..Len(wlog) : bufsiz >= wlog[k].n]_vars

(***************************************************************************)
(* C14: in every variant the write endpoint has been set nonblocking       *)
(* before the first write of writeData is issued on it, and the read       *)
(* endpoint has been set nonblocking before the first read of readData.    *)
(***************************************************************************)
C14_NonblockingFirst ==
  [][/\ Wrote => "w" \in nonblock
     /\ ReadIssued => "r" \in nonblock]_vars

\* a Pipe (whose descriptors start blocking) has been written and read
C14_Witness ==
  /\ IPC_TYPE = "IPC_PIPE"
  /\ wlog # <<>> /\ rlog # <<>>
  /\ nonblock = {"r", "w"}

(***************************************************************************)
(* C15: a write that fails for a reason other than would-block,            *)
(* message-too-large or no-buffer-space, and a read that fails for a       *)
(* reason other than would-block, ends the process at once with a nonzero  *)
(* status (EXIT_FAILURE from err(3); death by SIGPIPE when the failure is  *)
(* EPIPE): no write or read follows, the failed call leaves the totals as  *)
(* they were, and no observed total is printed after a failed write.       *)
(***************************************************************************)
WriteHandled == {"OK", "EAGAIN", "EMSGSIZE", "ENOBUFS"}
ReadHandled  == {"OK", "EAGAIN"}
Aborted(p)   == status[p] \in {"EXIT_FAILURE", "SIGPIPE"}
NoObserved(out) ==
  \A k \in 1..Len(out) : out[k].label \notin {"Observed total", "total"}

C15_OtherErrorsAbort ==
  [][/\ (Wrote /\ Last(wlog').errno \notin WriteHandled) =>
          /\ Gone(Writer)' /\ Aborted(Writer)'
          /\ accVars' = accVars /\ rtotal' = rtotal
          /\ queue' = queue /\ stdout' = stdout
     /\ (ReadIssued /\ Last(rlog').errno \notin ReadHandled) =>
          /\ Gone(Reader)' /\ status'[Reader] = "EXIT_FAILURE"
          /\ accVars' = accVars /\ rtotal' = rtotal
          /\ queue' = queue /\ stdout' = stdout
     /\ (wlog' # <<>> /\ Last(wlog').errno \notin WriteHandled) => NoObserved(stdout')
     /\ Gone(Writer) => ~Wrote
     /\ Gone(Reader) => ~ReadIssued
     /\ \A p \in Procs : Gone(p) => (pc'[p] = pc[p] /\ status'[p] = status[p])]_vars

\* a stream Socket: the child's third write failed, then the parent's read did
C15_Witness ==
  /\ Len(wlog) = 3 /\ Last(wlog).errno = "EIO" /\ TOTAL[Writer] > 0
  /\ rlog # <<>> /\ Last(rlog).errno = "EIO"
  /\ pc = [main |-> "exited", child |-> "exited"]
  /\ status = [main |-> "EXIT_FAILURE", child |-> "EXIT_FAILURE"]

(***************************************************************************)
(* C16: with a pipe size requested (-P) on a platform without F_SETPIPE_SZ *)
(* the run ends in setPipeSize with EXIT_FAILURE before any report line,   *)
(* write or read; with no size requested setPipeSize changes nothing and   *)
(* the run goes on to reportTest.                                          *)
(***************************************************************************)
SizeRequested == IPC_TYPE = "IPC_PIPE" /\ SET_PIPEBUF # -1
AtSetPipeSize == pc["main"] = "setPipeSize" /\ pc'["main"] # "setPipeSize"

C16_PipeSizeUnsupported ==
  [][/\ (SizeRequested /\ platform # "linux") =>
          /\ stdout' = <<>> /\ wlog' = <<>> /\ rlog' = <<>>
          /\ pc'["main"] \in {"atexit", "pipe", "setPipeSize", "exited"}
          /\ AtSetPipeSize =>
               (pc'["main"] = "exited" /\ status'["main"] = "EXIT_FAILURE")
     /\ (AtSetPipeSize /\ SET_PIPEBUF = -1) =>
          /\ pc'["main"] = "reportTest" /\ status' = status
          /\ <<cfgVars, accVars, wrVars, rdVars, chanVars, sockVars, fs,
               created, stdout>>' =
             <<cfgVars, accVars, wrVars, rdVars, chanVars, sockVars, fs,
               created, stdout>>]_vars

\* -P 5 on NetBSD: the run has ended with nothing printed
C16_Witness ==
  /\ SizeRequested /\ platform = "netbsd" /\ atexitHook
  /\ pc["main"] = "exited" /\ status["main"] = "EXIT_FAILURE"
  /\ stdout = <<>>

(***************************************************************************)
(* C17: every invalid configuration (unknown IPC type name, invalid socket *)
(* type, -P with a type other than pipe, -s with a type that is no socket, *)
(* an inet domain with a type other than socket, a non-numeric argument, a *)
(* number below its minimum) makes the process exit nonzero before any     *)
(* pipe, fifo or socket is created.                                        *)
(***************************************************************************)
IsNumber(s) ==
  LET digits == IF s # <<>> /\ s[1] \in {"-", "+"} THEN Tail(s) ELSE s
  IN  digits # <<>> /\ \A k \in 1..Len(digits) : IsDigit(digits[k])

KnownType(t) ==
  \E name \in {s_fifo, s_pipe, s_socket, s_socketpair} : StrCaseEq(t, name)

BadNumber(in, threshold) ==
  in # NoArg /\ (~IsNumber(in) \/ Strtol(in) < threshold)

Invalid(a) ==
  \/ a.t # NoArg /\ ~KnownType(a.t)
  \/ a.s # NoArg /\ ~StrCaseEq(ParsedSockTypeName(a), s_stream)
                 /\ ~StrCaseEq(ParsedSockTypeName(a), s_dgram)
  \/ a.P # NoArg /\ ParsedIpcType(a) # "IPC_PIPE"
  \/ a.s # NoArg /\ ParsedIpcType(a) \notin {"IPC_SOCKET", "IPC_SOCKETPAIR"}
  \/ HasPrefix(ParsedSockArg(a), s_inet) /\ ParsedIpcType(a) # "IPC_SOCKET"
  \/ BadNumber(a.P, 1) \/ BadNumber(a.R, 1) \/ BadNumber(a.S, 1)
  \/ BadNumber(a.n, 0)
  \/ \E k \in 1..Len(a.operands) : BadNumber(a.operands[k], 0)

C17_InvalidRejected ==
  Invalid(argv) =>
    /\ pc["main"] \in {"parseArgs", "exited"}
    /\ pc["main"] = "exited" => status["main"] = "EXIT_FAILURE"
    /\ created = {} /\ wlog = <<>> /\ rlog = <<>>

(***************************************************************************)
(* C18: in each process TOTAL is the sum of the byte counts the successful *)
(* write calls returned and LARGEST_CHUNK their maximum (0 if none), so    *)
(* LARGEST_CHUNK <= TOTAL; neither ever decreases, and only a successful   *)
(* write changes them: failed writes, provisioning, queue-size queries and *)
(* readData leave both as they are.                                        *)
(***************************************************************************)
RECURSIVE MaxOf(_)
MaxOf(s) == IF s = <<>> THEN 0 ELSE Max(s[1], MaxOf(Tail(s)))

Idle == CHOOSE p \in Procs : p # Writer

C18_Accounting ==
  [][/\ LogOpen' =>
          /\ TOTAL'[Writer] = Sum(AcceptedSizes')
          /\ LARGEST_CHUNK'[Writer] = MaxOf(AcceptedSizes')
     /\ TOTAL'[Idle] = 0 /\ LARGEST_CHUNK'[Idle] = 0
     /\ \A p \in Procs :
          /\ LARGEST_CHUNK'[p] <= TOTAL'[p]
          /\ TOTAL'[p] >= TOTAL[p]
          /\ LARGEST_CHUNK'[p] >= LARGEST_CHUNK[p]
     /\ accVars' # accVars =>
          (Wrote /\ Last(wlog').n > 0 /\ TOTAL'[Writer] = TOTAL[Writer] + Last(wlog').n)
     /\ (Wrote /\ Last(wlog').n < 0) => accVars' = accVars
     /\ ReadIssued => accVars' = accVars]_vars

\* a smaller write after a larger one: the largest chunk is not the last one
C18_Witness ==
  /\ LogOpen /\ Len(AcceptedSizes) >= 3
  /\ Last(AcceptedSizes) < LARGEST_CHUNK[Writer]
  /\ LARGEST_CHUNK[Writer] < TOTAL[Writer]
  /\ rlog # <<>>

(***************************************************************************)
(* C19: no read of readData is issued before the last write of writeData:  *)
(* in the single-process variants readData starts only after writeData has *)
(* returned (for Pipe and Fifo after the write end was closed); for a      *)
(* stream Socket the accepting process starts readData only after waitpid  *)
(* has reported the exit of the connecting process.                        *)
(***************************************************************************)
Draining == pc[Reader] \in {"readData", "read", "finish"}

WriterDone ==
  IF Writer = Reader
  THEN /\ pc[Writer] \notin {"writeData", "write", "report"}
       /\ ~NoObserved(stdout)
       /\ IPC_TYPE \in {"IPC_PIPE", "IPC_FIFO"} => wclosed
  ELSE Gone(Writer)

C19_DrainAfterLastWrite ==
  [][/\ Wrote => (rlog = <<>> /\ ~Draining)
     /\ ReadIssued => WriterDone
     /\ Draining' => WriterDone']_vars

\* a stream Socket: the child wrote and exited, then the parent read
C19_Witness ==
  /\ Writer = "child" /\ status["child"] = "EXIT_SUCCESS"
  /\ Len(wlog) >= 2 /\ rlog # <<>> /\ Last(rlog).n > 0

(***************************************************************************)
(* C20: teardown removes only paths this run created: a "fifo" or "socket" *)
(* that was in the working directory before the run is still there after   *)
(* it, also after a Pipe or SocketPair run and after a Fifo run that       *)
(* aborted because the node already existed.                               *)
(***************************************************************************)
C20_OnlyCreatedRemoved ==
  [][\A f \in fs \ created : f \in fs']_vars

=============================================================================
